---- MODULE Spec2Model ----
(***************************************************************************)
(* A state-machine model of examples/06-dc/plot_pseudo_section.py: run()   *)
(* validates its options, builds a mesh and a conductivity model, builds   *)
(* a survey, assembles the DC system, solves it transmitter by             *)
(* transmitter, converts the data and (optionally) plots.                  *)
(*                                                                         *)
(* The numerical libraries are not part of the script.  They are modelled  *)
(* on a coarse one-row mesh with exact rational arithmetic; the iterative  *)
(* solver is a nondeterministic choice over what it can hand back.         *)
(***************************************************************************)
EXTENDS Integers, Sequences, FiniteSets, TLC

VARIABLES pc, survey_type, unitType, plotIt, loc, sig, radi, param,
          mesh, model, survey, A, P, ii, RHS, phi, dtemp, data, dobs,
          fig, result, exc

vars == <<pc, survey_type, unitType, plotIt, loc, sig, radi, param,
          mesh, model, survey, A, P, ii, RHS, phi, dtemp, data, dobs,
          fig, result, exc>>

----------------------------------------------------------------------------
(* Bounds of the model.                                                    *)

\* number of cells of the (coarse, one-row) mesh
NC == 8
\* largest number of transmitters of a generated survey
MaxTx == 2
\* largest number of receiver dipoles of one transmitter
MaxRx == 2

----------------------------------------------------------------------------
(* Exact rationals <<numerator, denominator>>, denominator > 0, reduced.   *)

Abs(x) == IF x < 0 THEN -x ELSE x

RECURSIVE GCD(_, _)
GCD(a, b) == IF b = 0 THEN a ELSE GCD(b, a % b)

Rat(n, d) ==
    LET g == GCD(Abs(n), Abs(d))
        s == IF d < 0 THEN -1 ELSE 1
    IN  <<(s * n) \div g, (s * d) \div g>>

RInt(n) == <<n, 1>>
RAdd(a, b) ==
    LET g == GCD(a[2], b[2])
    IN  Rat(a[1] * (b[2] \div g) + b[1] * (a[2] \div g), (a[2] \div g) * b[2])
RNeg(a) == <<-a[1], a[2]>>
RSub(a, b) == RAdd(a, RNeg(b))
RMul(a, b) ==
    LET g1 == GCD(Abs(a[1]), b[2])
        g2 == GCD(Abs(b[1]), a[2])
    IN  Rat((a[1] \div g1) * (b[1] \div g2), (a[2] \div g2) * (b[2] \div g1))
RDiv(a, b) == RMul(a, Rat(b[2], b[1]))
RZero == RInt(0)
ROne == RInt(1)

RECURSIVE SumLen(_)
SumLen(ss) == IF ss = <<>> THEN 0 ELSE Len(Head(ss)) + SumLen(Tail(ss))

RECURSIVE Flatten(_)
Flatten(ss) == IF ss = <<>> THEN <<>> ELSE Head(ss) \o Flatten(Tail(ss))

----------------------------------------------------------------------------
(* Python values.  An optional array argument is None, a numpy array or a  *)
(* plain list; val holds the entries.                                      *)

None == [kind |-> "None", val |-> <<>>]
Arr(v) == [kind |-> "ndarray", val |-> v]
Lst(v) == [kind |-> "list", val |-> v]

\* line 56
dx == 5

\* np.c_[[-50., 0., -50.], [50., 0., -50.]]: column k is the centre of sphere k
DefaultLoc == Arr(<< <<-(10 * dx), 0, -(10 * dx)>>, <<10 * dx, 0, -(10 * dx)>> >>)
DefaultSigAsList == Lst(<<Rat(1, 100), Rat(1, 10), Rat(1, 1000)>>)

\* np.r_[1e-2, 1e-1, 1e-3]
DefaultSig == Arr(<<Rat(1, 100), Rat(1, 10), Rat(1, 1000)>>)
\* np.r_[25., 25.]
DefaultRadi == Arr(<<5 * dx, 5 * dx>>)
\* np.r_[30., 30., 5]
DefaultParam == Arr(<<6 * dx, 6 * dx, dx>>)

\* the values the model passes for each argument
SurveyTypeInputs ==
    {"pole-dipole", "dipole-dipole", "pole-pole", "dipole-pole", "gradient"}
UnitTypeInputs == {"appResistivity", "appConductivity", "volt", "ohm"}
AltLoc == Arr(<< <<-(6 * dx), 0, -(10 * dx)>>, <<-(2 * dx), 0, -(10 * dx)>> >>)
AltSig == Arr(<<RInt(1), RInt(2), RInt(3)>>)
AltRadi == Arr(<<9 * dx, 3 * dx>>)
AltParam == Arr(<<4 * dx, 4 * dx, 2>>)
\* <<loc, sig, radi, param>>
ArgInputs ==
    {<<None, None, None, None>>,
     <<AltLoc, None, None, None>>,
     <<None, AltSig, AltRadi, None>>,
     <<AltLoc, AltSig, AltRadi, AltParam>>,
     <<DefaultLoc, DefaultSig, DefaultRadi, DefaultParam>>,
     <<Lst(DefaultLoc.val), None, None, None>>,
     <<None, Lst(DefaultSig.val), Lst(DefaultRadi.val), Lst(DefaultParam.val)>>}

----------------------------------------------------------------------------
(* Input validation, lines 34-45.                                          *)

\* the list the first assert tests membership in (it names 'pole-dipole' twice)
AcceptedSurveyTypes == {"pole-dipole", "dipole-dipole", "pole-dipole", "pole-pole"}

\* the types the first assert's message names
MessageSurveyTypes == {"dipole-dipole", "pole-dipole", "dipole-pole", "pole-pole"}

ValidSurveyTypeAsMessage(s) == s \in MessageSurveyTypes

ValidSurveyTypeNoPolePole(s) == s \in AcceptedSurveyTypes \ {"pole-pole"}

ValidSurveyType(s) == s \in AcceptedSurveyTypes

AcceptedUnitTypes == {"appResistivity", "appConductivity", "volt"}

ValidUnitType(u) == u \in AcceptedUnitTypes

\* an input replaced by its default when it is None, lines 47-54
OrDefault(x, d) == IF x.kind = "None" THEN d ELSE x

----------------------------------------------------------------------------
(* The mesh, lines 56-62, coarsened to one row of NC cells along x through *)
(* the sphere centres: one padding cell at each end, core cells between.   *)

CellW == 4 * dx
MeshX0 == -(5 * CellW)
ZRow == -(10 * dx)

\* line 62, 'CCN': the top of the mesh is z = 0
TopZ == 0

Cells == 1..NC

hx(c) == IF c = 1 \/ c = NC THEN 2 * CellW ELSE CellW

RECURSIVE NodeX(_)
NodeX(c) == IF c = 0 THEN MeshX0 ELSE NodeX(c - 1) + hx(c)

\* mesh.gridCC
gridCC(c) == <<(NodeX(c - 1) + NodeX(c)) \div 2, 0, ZRow>>

\* mesh.vol
vol(c) == hx(c)

Dist2(p, q) ==
    (p[1] - q[1]) * (p[1] - q[1]) + (p[2] - q[2]) * (p[2] - q[2])
    + (p[3] - q[3]) * (p[3] - q[3])

\* utils.closestPoints for one point: the first cell whose centre is nearest
closestPoint(p) ==
    CHOOSE c \in Cells :
        /\ \A e \in Cells : Dist2(gridCC(c), p) <= Dist2(gridCC(e), p)
        /\ \A e \in Cells : Dist2(gridCC(e), p) = Dist2(gridCC(c), p) => c <= e

\* utils.closestPoints
closestPoints(pts) == [k \in 1..Len(pts) |-> closestPoint(pts[k])]

\* utils.model_builder.getIndicesSphere: the cells whose centre is nearer to
\* center than radius
getIndicesSphere(center, radius) ==
    {c \in Cells : radius > 0 /\ Dist2(gridCC(c), center) < radius * radius}

----------------------------------------------------------------------------
(* The conductivity model, lines 64-73.  Python's sig[0], sig[1], sig[2]   *)
(* are val[1], val[2], val[3] here, and likewise for loc and radi.         *)

\* model[ind] = value
AssignIndices(m, ind, value) == [c \in Cells |-> IF c \in ind THEN value ELSE m[c]]

BuildModelSecondFirst(l, s, r) ==
    LET m0 == [c \in Cells |-> s.val[1]]
        m1 == AssignIndices(m0, getIndicesSphere(l.val[2], r.val[2]), s.val[3])
    IN  AssignIndices(m1, getIndicesSphere(l.val[1], r.val[1]), s.val[2])

BuildModel(l, s, r) ==
    LET m0 == [c \in Cells |-> s.val[1]]
        m1 == AssignIndices(m0, getIndicesSphere(l.val[1], r.val[1]), s.val[2])
    IN  AssignIndices(m1, getIndicesSphere(l.val[2], r.val[2]), s.val[3])

----------------------------------------------------------------------------
(* The survey, lines 83-103.                                               *)

\* lines 85-94: the line's end points (x = -175 and x = 175 on the top of
\* the mesh) snapped to the nearest cell centres
locs ==
    LET ends == << <<-(35 * dx), 0, TopZ>>, <<35 * dx, 0, TopZ>> >>
        indx == closestPoints(ends)
    IN  [k \in 1..2 |-> <<gridCC(indx[k])[1], gridCC(indx[k])[2], TopZ>>]

\* the numbers of receiver dipoles per transmitter a survey can have
SurveyShapes == UNION {[1..n -> 1..MaxRx] : n \in 1..MaxTx}

\* gen_DCIPsurvey: transmitter k has its electrodes a apart, stepping along
\* the line by a, and one receiver object holding shape[k] dipoles (M, N),
\* b apart.  location is <<A, B>>; receiver_list[1].locations is <<M's, N's>>.
gen_DCIPsurvey(ends, a, b, shape) ==
    [k \in 1..Len(shape) |->
        LET xa == ends[1][1] + (k - 1) * a
            xb == xa + a
        IN  [location |-> << <<xa, ends[1][2], ends[1][3]>>,
                             <<xb, ends[1][2], ends[1][3]>> >>,
             receiver_list |->
                << [locations |->
                     << [j \in 1..shape[k] |-> <<xb + j * b, ends[1][2], ends[1][3]>>],
                        [j \in 1..shape[k] |-> <<xb + (j + 1) * b, ends[1][2], ends[1][3]>>] >>] >>]]

RxFirstOnly(Tx) == [k \in 1..Len(Tx) |-> Tx[1].receiver_list[1]]

\* line 103: Rx = [src.receiver_list[0] for src in Tx]
Rx(Tx) == [k \in 1..Len(Tx) |-> Tx[k].receiver_list[1]]

\* survey.nD: the number of transmitter-receiver combinations
RECURSIVE nD(_)
nD(Tx) ==
    IF Tx = <<>> THEN 0
    ELSE SumLen([r \in 1..Len(Head(Tx).receiver_list) |->
                    Head(Tx).receiver_list[r].locations[1]]) + nD(Tail(Tx))

----------------------------------------------------------------------------
(* The linear system, lines 110-127, on the one-row mesh with Neumann      *)
(* boundary conditions: face f lies between cells f and f + 1.             *)

\* distance between the centres of cells f and f + 1
dCC(f) == gridCC(f + 1)[1] - gridCC(f)[1]

\* line 116: the diagonal of Msig, 1 / (aveF2CC.T * (1 / model)) on face f
Msig(m, f) ==
    RDiv(ROne, RAdd(RDiv(ROne, RMul(RInt(2), m[f])),
                    RDiv(ROne, RMul(RInt(2), m[f + 1]))))

\* the coupling of cell c across face f: Div * Msig * Grad
Coupling(m, c, f) == RDiv(Msig(m, f), RInt(hx(c) * dCC(f)))

\* line 118: A = Div * Msig * Grad
DivMsigGrad(m) ==
    [c \in Cells |-> [e \in Cells |->
        IF e = c + 1 THEN Coupling(m, c, c)
        ELSE IF e = c - 1 THEN Coupling(m, c, e)
        ELSE IF e = c
             THEN RSub(RZero,
                       RAdd(IF c < NC THEN Coupling(m, c, c) ELSE RZero,
                            IF c > 1 THEN Coupling(m, c, c - 1) ELSE RZero))
        ELSE RZero]]

\* line 121: A[0, 0] = 1
SetCorner(a) == [a EXCEPT ![1][1] = ROne]

SystemMatrixNoCorner(m) == DivMsigGrad(m)

\* lines 114-122
SystemMatrix(m) == SetCorner(DivMsigGrad(m))

\* lines 126-127: the diagonal of P, 1 / A.diagonal()
Jacobi(a) == [c \in Cells |-> RDiv(ROne, a[c][c])]

----------------------------------------------------------------------------
(* The source term, lines 145-160.  A source term is the points handed to  *)
(* getInterpolationMat and the weight of each.                             *)

\* numpy's signs / mesh.vol[inds], a one-element operand repeated
DivByVol(signs, inds) ==
    [k \in 1..(IF Len(signs) > Len(inds) THEN Len(signs) ELSE Len(inds)) |->
        RDiv(RInt(signs[IF Len(signs) = 1 THEN 1 ELSE k]),
             RInt(vol(inds[IF Len(inds) = 1 THEN 1 ELSE k])))]

\* lines 156-160
DipoleSourceTerm(Tx, i) ==
    LET inds == closestPoints(Tx[i].location)
    IN  [pts |-> Tx[i].location, w |-> DivByVol(<<-1, 1>>, inds)]

\* lines 148-149 on a source whose location is <<A, B>>, one row per
\* electrode, which is the layout lines 156, 158 and 210 read.  When location
\* is a list, location[:, 0:1] raises TypeError.  When it is an array, the
\* slice is the column of x coordinates, (A.x, B.x), and adding the
\* three-entry offset of line 149 to its two entries raises ValueError.
PoleSourceErrors == {"TypeError", "ValueError"}

\* lines 169-173: (P1*phi - P2*phi)*pi, one entry per receiver dipole
PotentialDifference(rx, ph) ==
    [j \in 1..Len(rx.locations[1]) |->
        [M |-> rx.locations[1][j], N |-> rx.locations[2][j], phi |-> ph]]

----------------------------------------------------------------------------
(* The state.  pc is the position in run(); the other variables are its    *)
(* arguments and locals.  The list the loop appends to is data; the Data   *)
(* object line 185 binds to the same name is dobs.                         *)

NoMesh == [nC |-> 0, bc |-> "none"]
NoRHS == [pts |-> <<>>, w |-> <<>>]
NoPhi == [rhs |-> NoRHS, info |-> 0]
NoData == [dobs |-> <<>>, survey |-> "none"]
NoFig == [created |-> FALSE, model_plot |-> FALSE, pseudo_plot |-> FALSE]

\* what the solver's info can report: 0 converged, > 0 not converged
SolverInfos == {0, 1}

Init ==
    /\ pc = "start"
    /\ survey_type \in SurveyTypeInputs
    /\ unitType \in UnitTypeInputs
    /\ plotIt \in BOOLEAN
    /\ \E a \in ArgInputs :
          loc = a[1] /\ sig = a[2] /\ radi = a[3] /\ param = a[4]
    /\ mesh = NoMesh
    /\ model = <<>>
    /\ survey = <<>>
    /\ A = <<>>
    /\ P = <<>>
    /\ ii = 0
    /\ RHS = NoRHS
    /\ phi = NoPhi
    /\ dtemp = <<>>
    /\ data = <<>>
    /\ dobs = NoData
    /\ fig = NoFig
    /\ result = "unset"
    /\ exc = "none"

inputs == <<survey_type, unitType, plotIt>>
args == <<loc, sig, radi, param>>
tail == <<fig, result>>

\* lines 34-45: the two asserts
Validate ==
    /\ pc = "start"
    /\ IF ValidSurveyType(survey_type) /\ ValidUnitType(unitType)
       THEN pc' = "defaults" /\ exc' = exc
       ELSE pc' = "raised" /\ exc' = "AssertionError"
    /\ UNCHANGED <<inputs, args, mesh, model, survey, A, P, ii, RHS, phi,
                   dtemp, data, dobs, tail>>

\* lines 47-54
Defaults ==
    /\ pc = "defaults"
    /\ loc' = OrDefault(loc, DefaultLoc)
    /\ sig' = OrDefault(sig, DefaultSig)
    /\ radi' = OrDefault(radi, DefaultRadi)
    /\ param' = OrDefault(param, DefaultParam)
    /\ pc' = "mesh"
    /\ UNCHANGED <<inputs, mesh, model, survey, A, P, ii, RHS, phi,
                   dtemp, data, dobs, tail, exc>>

\* lines 56-62
MakeMesh ==
    /\ pc = "mesh"
    /\ mesh' = [nC |-> NC, bc |-> "none"]
    /\ pc' = "model"
    /\ UNCHANGED <<inputs, args, model, survey, A, P, ii, RHS, phi,
                   dtemp, data, dobs, tail, exc>>

\* lines 64-73; loc[:, 0] is an array index, which a list does not take
MakeModel ==
    /\ pc = "model"
    /\ IF loc.kind = "list"
       THEN pc' = "raised" /\ exc' = "TypeError" /\ model' = [c \in Cells |-> sig.val[1]]
       ELSE pc' = "survey" /\ exc' = exc /\ model' = BuildModel(loc, sig, radi)
    /\ UNCHANGED <<inputs, args, mesh, survey, A, P, ii, RHS, phi,
                   dtemp, data, dobs, tail>>

\* lines 75-107
MakeSurvey ==
    /\ pc = "survey"
    /\ \E shape \in SurveyShapes :
          survey' = gen_DCIPsurvey(locs, param.val[1], param.val[2], shape)
    /\ pc' = "assemble"
    /\ UNCHANGED <<inputs, args, mesh, model, A, P, ii, RHS, phi,
                   dtemp, data, dobs, tail, exc>>

\* lines 110-122
Assemble ==
    /\ pc = "assemble"
    /\ mesh' = [mesh EXCEPT !.bc = "neumann"]
    /\ A' = SystemMatrix(model)
    /\ pc' = "precondition"
    /\ UNCHANGED <<inputs, args, model, survey, P, ii, RHS, phi,
                   dtemp, data, dobs, tail, exc>>

\* lines 126-131
Precondition ==
    /\ pc = "precondition"
    /\ P' = Jacobi(A)
    /\ data' = <<>>
    /\ pc' = "loop"
    /\ UNCHANGED <<inputs, args, mesh, model, survey, A, ii, RHS, phi,
                   dtemp, dobs, tail, exc>>

\* the transmitter the loop takes after having finished i of them
NextTransmitter(i) == i + 1

\* lines 135-143: ii counts the transmitters taken so far (Python's ii + 1)
LoopHead ==
    /\ pc = "loop"
    /\ IF ii < Len(survey)
       THEN ii' = NextTransmitter(ii) /\ pc' = "rhs"
       ELSE ii' = ii /\ pc' = "convert"
    /\ UNCHANGED <<inputs, args, mesh, model, survey, A, P, RHS, phi,
                   dtemp, data, dobs, tail, exc>>

\* lines 145-146 and 155-160: every survey type but 'pole-dipole'
MakeSourceTerm ==
    /\ pc = "rhs"
    /\ survey_type # "pole-dipole"
    /\ RHS' = DipoleSourceTerm(survey, ii)
    /\ pc' = "solve"
    /\ UNCHANGED <<inputs, args, mesh, model, survey, A, P, ii, phi,
                   dtemp, data, dobs, tail, exc>>

\* lines 146-154: the 'pole-dipole' branch raises at line 148 or 149 and
\* never reaches the interpolation of line 152
RaiseInSourceTerm ==
    /\ pc = "rhs"
    /\ survey_type = "pole-dipole"
    /\ pc' = "raised"
    /\ exc' \in PoleSourceErrors
    /\ UNCHANGED <<inputs, args, mesh, model, survey, A, P, ii, RHS, phi,
                   dtemp, data, dobs, tail>>

\* lines 163-166: bicgstab returns (x, info); the script keeps x alone
Solve ==
    /\ pc = "solve"
    /\ \E info \in SolverInfos : phi' = [rhs |-> RHS, info |-> info]
    /\ pc' = "sample"
    /\ UNCHANGED <<inputs, args, mesh, model, survey, A, P, ii, RHS,
                   dtemp, data, dobs, tail, exc>>

RaiseInSolveSwallowed ==
    /\ pc = "solve"
    /\ pc' = "loop"
    /\ exc' = "LibraryError"
    /\ UNCHANGED <<inputs, args, mesh, model, survey, A, P, ii, RHS, phi,
                   dtemp, data, dobs, tail>>

\* line 163: the solver raises; nothing in run() catches it
RaiseInSolve ==
    /\ pc = "solve"
    /\ pc' = "raised"
    /\ exc' = "LibraryError"
    /\ UNCHANGED <<inputs, args, mesh, model, survey, A, P, ii, RHS, phi,
                   dtemp, data, dobs, tail>>

\* lines 169-173
Sample ==
    /\ pc = "sample"
    /\ dtemp' = PotentialDifference(Rx(survey)[ii], phi)
    /\ pc' = "append"
    /\ UNCHANGED <<inputs, args, mesh, model, survey, A, P, ii, RHS, phi,
                   data, dobs, tail, exc>>

AppendDataReplace(d, x) == <<x>>

\* line 175: data.append(dtemp)
AppendData(d, x) == Append(d, x)

\* lines 175-178
AppendStep ==
    /\ pc = "append"
    /\ data' = AppendData(data, dtemp)
    /\ pc' = "loop"
    /\ UNCHANGED <<inputs, args, mesh, model, survey, A, P, ii, RHS, phi,
                   dtemp, dobs, tail, exc>>

ReturnsEarlyWhenPlotting(p) == p

\* line 188: if not plotIt: return
ReturnsEarly(p) == ~p

\* lines 180-189: np.hstack(data) into the Data object, then the early return
Convert ==
    /\ pc = "convert"
    /\ dobs' = [dobs |-> Flatten(data), survey |-> "survey2D"]
    /\ IF ReturnsEarly(plotIt)
       THEN pc' = "done" /\ result' = "None"
       ELSE pc' = "plot_model" /\ result' = result
    /\ UNCHANGED <<inputs, args, mesh, model, survey, A, P, ii, RHS, phi,
                   dtemp, data, fig, exc>>

\* whether sig.min() and sig.max() (lines 205, 227) exist
HasMinMax(s) == s.kind = "ndarray"

\* lines 191-231: the figure, then the model plot
PlotModel ==
    /\ pc = "plot_model"
    /\ IF HasMinMax(sig)
       THEN /\ fig' = [fig EXCEPT !.created = TRUE, !.model_plot = TRUE]
            /\ pc' = "plot_pseudo"
            /\ exc' = exc
       ELSE /\ fig' = [fig EXCEPT !.created = TRUE]
            /\ pc' = "raised"
            /\ exc' = "AttributeError"
    /\ UNCHANGED <<inputs, args, mesh, model, survey, A, P, ii, RHS, phi,
                   dtemp, data, dobs, result>>

\* lines 233-254
PlotPseudo ==
    /\ pc = "plot_pseudo"
    /\ fig' = [fig EXCEPT !.pseudo_plot = TRUE]
    /\ result' = "fig, ax"
    /\ pc' = "done"
    /\ UNCHANGED <<inputs, args, mesh, model, survey, A, P, ii, RHS, phi,
                   dtemp, data, dobs, exc>>

Next ==
    \/ Validate
    \/ Defaults
    \/ MakeMesh
    \/ MakeModel
    \/ MakeSurvey
    \/ Assemble
    \/ Precondition
    \/ LoopHead
    \/ MakeSourceTerm
    \/ RaiseInSourceTerm
    \/ Solve
    \/ RaiseInSolve
    \/ Sample
    \/ AppendStep
    \/ Convert
    \/ PlotModel
    \/ PlotPseudo

Spec == Init /\ [][Next]_vars

----------------------------------------------------------------------------
(* The properties.                                                         *)

ClaimedSurveyTypes == {"pole-dipole", "dipole-dipole", "pole-pole"}
ClaimedUnitTypes == {"appResistivity", "appConductivity", "volt"}
ValidInputs == survey_type \in ClaimedSurveyTypes /\ unitType \in ClaimedUnitTypes

LoopPcs == {"loop", "rhs", "solve", "sample", "append"}

\* C1: when survey_type is none of 'pole-dipole', 'dipole-dipole',
\* 'pole-pole' ('dipole-pole' included), or unitType is none of
\* 'appResistivity', 'appConductivity', 'volt', the only step run() ever
\* takes is the failing assert: it ends with an AssertionError and no
\* default is substituted, no mesh, model, survey or system is built and
\* nothing is solved.
C1_InvalidInputFailsFirst ==
    [][~ValidInputs =>
          /\ pc = "start"
          /\ pc' = "raised"
          /\ exc' = "AssertionError"
          /\ UNCHANGED <<args, mesh, model, survey, A, P, ii, RHS, phi,
                         dtemp, data, dobs, fig, result>>]_vars

C1_Witness ==
    /\ survey_type = "dipole-pole"
    /\ unitType \in ClaimedUnitTypes
    /\ pc = "raised"
    /\ exc = "AssertionError"
    /\ mesh = NoMesh

\* C2: for each of the nine combinations of an accepted survey_type and an
\* accepted unitType neither assert raises: run() goes from the asserts to
\* the default substitution and from there to the mesh building, and no
\* AssertionError is ever raised.
C2_ValidInputPasses ==
    [][ValidInputs =>
          /\ pc = "start" => pc' = "defaults"
          /\ pc = "defaults" => pc' = "mesh"
          /\ exc' # "AssertionError"]_vars

C2_Witness ==
    /\ survey_type = "pole-pole"
    /\ unitType = "volt"
    /\ pc = "model"
    /\ mesh.nC = NC
    /\ exc = "none"

\* C3: the array handed to Data(dobs=...) has one entry per
\* transmitter-receiver combination of the survey: the list holds one array
\* per transmitter, and the array of transmitter k has one entry per
\* receiver dipole of its first receiver.
C3_DataLength ==
    dobs.survey = "survey2D" =>
        /\ Len(dobs.dobs) = nD(survey)
        /\ Len(data) = Len(survey)
        /\ \A k \in 1..Len(data) :
              Len(data[k]) = Len(survey[k].receiver_list[1].locations[1])

DefaultArgs ==
    /\ loc \in {None, DefaultLoc}
    /\ sig \in {None, DefaultSig}
    /\ radi \in {None, DefaultRadi}
    /\ param \in {None, DefaultParam}

DefaultConfiguration ==
    /\ DefaultArgs
    /\ survey_type = "dipole-dipole"
    /\ unitType = "appConductivity"

C3_Witness ==
    /\ DefaultConfiguration
    /\ dobs.survey = "survey2D"
    /\ Len(survey) = 2
    /\ Len(survey[1].receiver_list[1].locations[1]) = 1
    /\ Len(survey[2].receiver_list[1].locations[1]) = 2
    /\ Len(dobs.dobs) = 3

\* C4: with plotIt false no figure is ever created and no plotting step is
\* ever reached; when run() has returned it has returned None, every
\* transmitter has its data in the list and the list has been converted
\* into the Data object.
C4_NoPlotReturnsNone ==
    ~plotIt =>
        /\ fig = NoFig
        /\ pc \notin {"plot_model", "plot_pseudo"}
        /\ result # "fig, ax"
        /\ pc = "done" =>
              /\ result = "None"
              /\ Len(data) = Len(survey)
              /\ \A k \in 1..Len(data) :
                    /\ data[k] # <<>>
                    /\ \A j \in 1..Len(data[k]) :
                          data[k][j].phi.rhs.pts = survey[k].location
              /\ dobs = [dobs |-> Flatten(data), survey |-> "survey2D"]

C4_Witness ==
    /\ ~plotIt
    /\ ValidInputs
    /\ pc = "done"
    /\ result = "None"
    /\ Len(data) = 2

\* C5: with plotIt true and the default configuration nothing in run()
\* itself raises (the one exception possible is one the solver raises), and
\* when run() has returned it has returned the figure and an axis, with the
\* model plot and the pseudo-section both drawn.
C5_PlotReturnsFigure ==
    plotIt /\ DefaultConfiguration =>
        /\ pc = "raised" => exc = "LibraryError"
        /\ pc = "done" =>
              /\ result = "fig, ax"
              /\ fig = [created |-> TRUE, model_plot |-> TRUE, pseudo_plot |-> TRUE]
        /\ result # "None"

C5_Witness ==
    /\ plotIt
    /\ DefaultConfiguration
    /\ pc = "done"
    /\ result = "fig, ax"
    /\ fig.model_plot
    /\ fig.pseudo_plot

\* C6, as claimed: a failed solve never leaves a trace in the data: the
\* potential of a solve that did not converge takes the run to the raised
\* state, and no data entry is ever computed from such a potential.
C6_FailedSolveNeverRecorded ==
    /\ phi.info # 0 => pc = "raised"
    /\ \A k \in 1..Len(data) : \A j \in 1..Len(data[k]) : data[k][j].phi.info = 0

\* C6, amended: an exception the solver raises ends run() there: nothing
\* catches it, no data is recorded for that transmitter, no later
\* transmitter is taken, nothing is converted or returned, and no step
\* follows.  A solve that reports non-convergence in its info value raises
\* nothing: the script does not read info, so the steps after the solve are
\* the same whatever it is: the potential is sampled and the data appended.
C6_RaisePropagatesInfoIgnored ==
    /\ [](exc = "LibraryError" =>
            /\ pc = "raised"
            /\ Len(data) = ii - 1
            /\ dobs = NoData
            /\ result = "unset")
    /\ [][/\ pc = "raised" => FALSE
          /\ pc = "solve" /\ pc' # "raised" =>
                pc' = "sample" /\ phi'.rhs = RHS /\ exc' = exc
          /\ pc = "sample" =>
                pc' = "append" /\ dtemp' = PotentialDifference(Rx(survey)[ii], phi)
          /\ pc = "append" => pc' = "loop" /\ data' = Append(data, dtemp)]_vars

C6_Witness ==
    /\ pc = "raised"
    /\ exc = "LibraryError"
    /\ ii = 2
    /\ Len(data) = 1
    /\ data[1][1].phi.info = 1

\* C7, as claimed: every iteration of the loop builds a source term and
\* goes on to the solve with it: for 'pole-dipole' one point, the
\* transmitter's first electrode, with weight -1 over the volume of its
\* closest cell, and for the other accepted types the transmitter's two
\* electrodes with weights -1 and +1, each over the volume of the
\* electrode's closest cell.
C7_SourceTermBySurveyType ==
    [][pc = "rhs" =>
          LET e == survey[ii].location
          IN  /\ pc' = "solve"
              /\ IF survey_type = "pole-dipole"
                 THEN /\ RHS'.pts = <<e[1]>>
                      /\ RHS'.w = <<Rat(-1, vol(closestPoint(e[1])))>>
                 ELSE /\ RHS'.pts = e
                      /\ RHS'.w = <<Rat(-1, vol(closestPoint(e[1]))),
                                    Rat(1, vol(closestPoint(e[2])))>>]_vars

\* C8: the loop takes the transmitters one at a time in list order.  Within
\* an iteration the steps follow each other as source term, solve, sample,
\* append; the transmitter changes only at the head of the loop, by one;
\* while transmitter ii is being worked on exactly the ii - 1 before it have
\* their data in the list; and the k-th entry of the list was computed from
\* the source term and the receivers of the k-th transmitter.
C8_SequentialInOrder ==
    /\ [](pc \in LoopPcs =>
            /\ ii \in 0..Len(survey)
            /\ Len(data) = (IF pc = "loop" THEN ii ELSE ii - 1)
            /\ \A k \in 1..Len(data) :
                  /\ Len(data[k]) = Len(survey[k].receiver_list[1].locations[1])
                  /\ \A j \in 1..Len(data[k]) :
                        /\ data[k][j].phi.rhs.pts = survey[k].location
                        /\ data[k][j].M = survey[k].receiver_list[1].locations[1][j]
                        /\ data[k][j].N = survey[k].receiver_list[1].locations[2][j])
    /\ [][/\ pc = "loop" => pc' \in {"rhs", "convert"}
          /\ pc' = "rhs" => pc = "loop" /\ ii' = ii + 1
          /\ pc # "loop" => ii' = ii
          /\ pc = "rhs" => pc' \in {"solve", "raised"}
          /\ pc = "solve" => pc' \in {"sample", "raised"}
          /\ pc = "sample" => pc' = "append"
          /\ pc = "append" => pc' = "loop" /\ Len(data') = Len(data) + 1
          /\ pc # "append" /\ pc # "precondition" => data' = data]_vars

C8_Witness ==
    /\ pc = "solve"
    /\ ii = 2
    /\ Len(data) = 1
    /\ data[1][1].phi.rhs.pts = survey[1].location
    /\ survey[1].location # survey[2].location

InsideSphere(c, k) ==
    Dist2(gridCC(c), loc.val[k]) < radi.val[k] * radi.val[k]

\* C9: once the model is built every cell has sig[2] if its centre is
\* inside the second sphere, else sig[1] if it is inside the first, else
\* sig[0]; a cell inside both has the second sphere's value.
C9_ModelValues ==
    pc \notin {"start", "defaults", "mesh", "model", "raised"} =>
        \A c \in Cells :
            model[c] = IF InsideSphere(c, 2) THEN sig.val[3]
                       ELSE IF InsideSphere(c, 1) THEN sig.val[2]
                       ELSE sig.val[1]

C9_Witness ==
    /\ pc = "survey"
    /\ sig.val[2] # sig.val[3]
    /\ \E c \in Cells :
          InsideSphere(c, 1) /\ InsideSphere(c, 2) /\ model[c] = sig.val[3]
    /\ \E c \in Cells :
          InsideSphere(c, 1) /\ ~InsideSphere(c, 2) /\ model[c] = sig.val[2]

\* C10: whenever a transmitter is solved, A is Div*Msig*Grad of the model
\* with its corner entry set to 1 and P is the inverse of the diagonal of
\* that A; A changes only in the assembly step and P only in the step after
\* it, both before any transmitter is taken; and no step of the loop changes
\* A, P, the model or the survey.
C10_SystemFixedInLoop ==
    /\ [](pc = "solve" =>
            /\ A = [DivMsigGrad(model) EXCEPT ![1][1] = <<1, 1>>]
            /\ \A c \in Cells : RMul(P[c], A[c][c]) = <<1, 1>>
            /\ P[1] = <<1, 1>>)
    /\ [][/\ A' # A => pc = "assemble" /\ ii = 0 /\ data = <<>> /\ P = <<>>
          /\ P' # P => pc = "precondition" /\ ii = 0 /\ data = <<>> /\ A # <<>>
          /\ pc \in LoopPcs => UNCHANGED <<A, P, model, survey>>]_vars

C10_Witness ==
    /\ pc = "append"
    /\ ii = 2
    /\ A[1][1] = <<1, 1>>
    /\ DivMsigGrad(model)[1][1] # <<1, 1>>
    /\ \E c \in Cells : P[c] # <<1, 1>>

====
